---- MODULE Spec2Model ----
(***************************************************************************)
(* Model of the two-pass assembler of src/compiler/jit.rs: compile, the    *)
(* Compiler (output buffer, fixup table, label table), first_pass with the *)
(* per-instruction templates, and second_pass.                             *)
(***************************************************************************)
EXTENDS Integers, Sequences, FiniteSets, TLC

\* ------------------------------------------------------------------ bounds
MaxLen == 2
MaxTarget == 3
MaxSeed == 1

\* ---------------------------------------------------- the encoding table
PUSH_RBX == <<\H53>>
PUSH_R12 == <<\H41, \H54>>
PUSH_R13 == <<\H41, \H55>>
PUSH_R14 == <<\H41, \H56>>

POP_R14 == <<\H41, \H5e>>
POP_R13 == <<\H41, \H5d>>
POP_R12 == <<\H41, \H5c>>
POP_RBX == <<\H5b>>

MOV_RDI_TO_RBX == <<\H48, \H89, \Hfb>>
MOV_RSI_TO_R12 == <<\H49, \H89, \Hf4>>
MOV_RDX_TO_R13 == <<\H49, \H89, \Hd5>>
MOV_R12_TO_RDI == <<\H4c, \H89, \He7>>
MOV_R13_TO_RSI == <<\H4c, \H89, \Hee>>
MOV_RAX_TO_R12 == <<\H49, \H89, \Hc4>>
MOV_RBX_TO_RDI == <<\H48, \H89, \Hdf>>
MOV_AX_TO_SI == <<\H66, \H89, \Hc9>>
MOV_AX_TO_MEM_R12_R14 == <<\H66, \H43, \H89, \H04, \H34>>
MOV_MEM_R12_R14_TO_AL == <<\H43, \H8a, \H04, \H34>>
MOVABS_TO_RAX == <<\H48, \Hb8>>

CMP_R14_WITH_R13 == <<\H4d, \H39, \Hee>>
TEST_R14_WITH_R14 == <<\H4d, \H85, \Hf6>>
TEST_AX_WITH_AX == <<\H66, \H85, \Hc0>>
TEST_AL_WITH_AL == <<\H84, \Hc0>>

JMP_REL32 == <<\He9>>
JE_JZ_REL32 == <<\H0f, \H84>>
JNE_JNZ_REL32 == <<\H0f, \H85>>
JS_REL32 == <<\H0f, \H88>>
CALL_ABS_RAX == <<\Hff>>

XOR_R14_TO_R14 == <<\H4d, \H31, \Hf6>>
XOR_EAX_TO_EAX == <<\H31, \Hc0>>

ADD_IMM32_TO_R13 == <<\H49, \H81, \Hc5>>
ADD_IMM32_TO_R14 == <<\H49, \H81, \Hc6>>

ROR_IMM8_TO_AX == <<\H66, \Hc1, \Hc8>>

INC_R14 == <<\H49, \Hff, \Hc6>>
DEC_R14 == <<\H49, \Hff, \Hce>>

INCB_MEM_R12_R14 == <<\H43, \Hfe, \H04, \H34>>
DECB_MEM_R12_R14 == <<\H43, \Hfe, \H0c, \H34>>

RET == <<\Hc3>>

\* ------------------------------------- the runtime module (mod runtime)
\* Addresses of the four helper routines and the tape chunk size.
GROW_NEXT_PTR == 4096
GROW_PREV_PTR == 4352
GET_PTR == 4608
PUT_PTR == 4864
TAPE_CHUNK_SIZE == 8192

\* ----------------------------------------------------------- the program
Instruction ==
    {[op |-> o, target |-> 0] :
        o \in {"Inc", "Dec", "Next", "Prev", "Get", "Put", "Halt"}}
    \cup {[op |-> o, target |-> t] : o \in {"Jz", "Jnz"}, t \in 0..MaxTarget}

Program == UNION {[1..n -> Instruction] : n \in 0..MaxLen}

\* --------------------------------------------------------------- helpers
\* n.to_le_bytes() for a w-byte unsigned integer: the low w bytes of n,
\* least significant first (so a wider n is truncated, as by `as u32`).
RECURSIVE to_le_bytes(_, _)
to_le_bytes(n, w) ==
    IF w = 0 THEN <<>> ELSE <<n % 256>> \o to_le_bytes(n \div 256, w - 1)

\* b[p .. p + n] with Rust's 0-based offsets
Slice(b, p, n) == SubSeq(b, p + 1, p + n)

\* copy_from_slice one byte too far to the right
copy_from_slice_shifted(b, p, bytes) ==
    [i \in 1..Len(b) |->
        IF i > p + 1 /\ i <= p + 1 + Len(bytes) THEN bytes[i - p - 1] ELSE b[i]]

\* b[p .. p + 4].copy_from_slice(bytes)
copy_from_slice(b, p, bytes) ==
    [i \in 1..Len(b) |->
        IF i > p /\ i <= p + Len(bytes) THEN bytes[i - p] ELSE b[i]]

\* HashMap::insert / BTreeMap::insert: the entry is added or overwritten
insert(map, key, value) ==
    [k \in DOMAIN map \cup {key} |-> IF k = key THEN value ELSE map[k]]

EmptyMap == [k \in {} |-> 0]

Min(S) == CHOOSE m \in S : \A k \in S : m <= k

\* the last key, for an iteration order other than the BTreeMap's
Max(S) == CHOOSE m \in S : \A k \in S : m >= k

\* ---------------------------------------------------------- the Compiler
\* A Compiler value is a record [buf, placeholders, labels].
new == [buf |-> <<>>, placeholders |-> EmptyMap, labels |-> EmptyMap]

extend(c, bytes) == [c EXCEPT !.buf = c.buf \o bytes]

\* def_label with the pair flattened into one index
def_label_flat(c, ir_label, sub_label) ==
    [c EXCEPT !.labels = insert(c.labels, <<ir_label + sub_label, 0>>,
                                Len(c.buf))]

def_label(c, ir_label, sub_label) ==
    [c EXCEPT !.labels = insert(c.labels, <<ir_label, sub_label>>, Len(c.buf))]

\* def_main_label with the sub-index of an internal label
def_main_label_sub1(c, ir_label) == def_label(c, ir_label, 1)

def_main_label(c, ir_label) == def_label(c, ir_label, 0)

\* make_placeholder reserving a 16-bit operand
make_placeholder_short(c, ir_label, sub_label) ==
    [c EXCEPT !.placeholders =
                  insert(c.placeholders, Len(c.buf), <<ir_label, sub_label>>),
              !.buf = c.buf \o to_le_bytes(0, 2)]

make_placeholder(c, ir_label, sub_label) ==
    [c EXCEPT !.placeholders =
                  insert(c.placeholders, Len(c.buf), <<ir_label, sub_label>>),
              !.buf = c.buf \o to_le_bytes(0, 4)]

call_absolute(c, func_ptr) ==
    extend(extend(extend(c, MOVABS_TO_RAX), to_le_bytes(func_ptr, 8)),
           CALL_ABS_RAX)

write_enter(c) ==
    LET c1 == extend(c, PUSH_RBX)
        c2 == extend(c1, PUSH_R12)
        c3 == extend(c2, PUSH_R13)
        c4 == extend(c3, PUSH_R14)
        c5 == extend(c4, MOV_RDI_TO_RBX)
        c6 == extend(c5, MOV_RSI_TO_R12)
        c7 == extend(c6, MOV_RDX_TO_R13)
    IN  extend(c7, XOR_R14_TO_R14)

write_leave(c, ir_label) ==
    LET c1 == extend(c, XOR_EAX_TO_EAX)
        c2 == def_label(c1, ir_label, 1)
        c3 == extend(c2, POP_R14)
        c4 == extend(c3, POP_R13)
        c5 == extend(c4, POP_R12)
        c6 == extend(c5, POP_RBX)
    IN  extend(c6, RET)

write_inc(c) == extend(c, INCB_MEM_R12_R14)

write_dec(c) == extend(c, DECB_MEM_R12_R14)

write_next(c, ir_label) ==
    LET c1 == extend(c, CMP_R14_WITH_R13)
        c2 == extend(c1, JNE_JNZ_REL32)
        c3 == make_placeholder(c2, ir_label, 1)
        c4 == extend(c3, MOV_R12_TO_RDI)
        c5 == extend(c4, MOV_R13_TO_RSI)
        c6 == call_absolute(c5, GROW_NEXT_PTR)
        c7 == extend(c6, MOV_RAX_TO_R12)
        c8 == extend(c7, ADD_IMM32_TO_R13)
        c9 == extend(c8, to_le_bytes(TAPE_CHUNK_SIZE, 4))
        c10 == def_label(c9, ir_label, 1)
    IN  extend(c10, INC_R14)

write_prev(c, ir_label) ==
    LET c1 == extend(c, TEST_R14_WITH_R14)
        c2 == extend(c1, JNE_JNZ_REL32)
        c3 == make_placeholder(c2, ir_label, 1)
        c4 == extend(c3, MOV_R12_TO_RDI)
        c5 == extend(c4, MOV_R13_TO_RSI)
        c6 == call_absolute(c5, GROW_PREV_PTR)
        c7 == extend(c6, ADD_IMM32_TO_R14)
        c8 == extend(c7, to_le_bytes(TAPE_CHUNK_SIZE, 4))
        c9 == extend(c8, MOV_RAX_TO_R12)
        c10 == extend(c9, ADD_IMM32_TO_R13)
        c11 == extend(c10, to_le_bytes(TAPE_CHUNK_SIZE, 4))
        c12 == def_label(c11, ir_label, 1)
    IN  extend(c12, DEC_R14)

write_put(c, last_ir_label) ==
    LET c1 == extend(c, MOV_RBX_TO_RDI)
        c2 == extend(c1, XOR_EAX_TO_EAX)
        c3 == extend(c2, MOV_MEM_R12_R14_TO_AL)
        c4 == extend(c3, MOV_AX_TO_SI)
        c5 == call_absolute(c4, PUT_PTR)
        c6 == extend(c5, TEST_AL_WITH_AL)
        c7 == extend(c6, JS_REL32)
    IN  make_placeholder(c7, last_ir_label, 1)

write_get(c, ir_label, last_ir_label) ==
    LET c1 == extend(c, CMP_R14_WITH_R13)
        c2 == extend(c1, JNE_JNZ_REL32)
        c3 == make_placeholder(c2, ir_label, 1)
        c4 == extend(c3, MOV_R12_TO_RDI)
        c5 == extend(c4, MOV_R13_TO_RSI)
        c6 == call_absolute(c5, GROW_NEXT_PTR)
        c7 == extend(c6, MOV_RAX_TO_R12)
        c8 == extend(c7, ADD_IMM32_TO_R13)
        c9 == extend(c8, to_le_bytes(TAPE_CHUNK_SIZE, 4))
        c10 == def_label(c9, ir_label, 1)
        c11 == extend(c10, MOV_RBX_TO_RDI)
        c12 == call_absolute(c11, GET_PTR)
        c13 == extend(c12, TEST_AX_WITH_AX)
        c14 == extend(c13, JS_REL32)
        c15 == make_placeholder(c14, last_ir_label, 1)
        c16 == extend(c15, ROR_IMM8_TO_AX)
        c17 == extend(c16, to_le_bytes(8, 1))
    IN  extend(c17, MOV_AX_TO_MEM_R12_R14)

write_halt(c, last_ir_label) ==
    make_placeholder(extend(c, JMP_REL32), last_ir_label, 0)

write_jz(c, target_ir_label) ==
    make_placeholder(extend(c, JE_JZ_REL32), target_ir_label, 0)

write_jnz(c, target_ir_label) ==
    make_placeholder(extend(c, JNE_JNZ_REL32), target_ir_label, 0)

handle_instruction(c, ir_label, instr, last_ir_label) ==
    CASE instr.op = "Inc" -> write_inc(c)
      [] instr.op = "Dec" -> write_dec(c)
      [] instr.op = "Next" -> write_next(c, ir_label)
      [] instr.op = "Prev" -> write_prev(c, ir_label)
      [] instr.op = "Get" -> write_get(c, ir_label, last_ir_label)
      [] instr.op = "Put" -> write_put(c, last_ir_label)
      [] instr.op = "Jz" -> write_jz(c, instr.target)
      [] instr.op = "Jnz" -> write_jnz(c, instr.target)
      [] instr.op = "Halt" -> write_halt(c, last_ir_label)

\* ----------------------------------------------------------------- state
VARIABLES
    program,             \* the Program handed to compile
    TARGET_SUPPORTED,    \* cfg!(all(target_os = "linux", target_arch = "x86_64"))
    pc,                  \* position inside compile
    has_compiler,        \* whether Compiler::new() has run
    compiler,            \* the Compiler: [buf, placeholders, labels]
    hash_seed,           \* RandomState of the HashMap behind labels
    ir_label,            \* loop index of first_pass
    visited,             \* fixup offsets second_pass has iterated over
    second_pass_result,  \* what second_pass returned
    result,              \* how compile ended
    first_run,           \* outcome of an earlier, independent run
    cpu                  \* the processor running the emitted code

vars == <<program, TARGET_SUPPORTED, pc, has_compiler, compiler, hash_seed,
          ir_label, visited, second_pass_result, result, first_run, cpu>>

\* RandomState takes its keys from the operating system
Seeds == 0..MaxSeed

\* values of Result<(), Error> and of the way compile ends
NoResult == [kind |-> "None", index |-> 0]
Ok == [kind |-> "Ok", index |-> 0]
UnsupportedTarget == [kind |-> "UnsupportedTarget", index |-> 0]
BadLabelIndex(n) == [kind |-> "BadLabelIndex", index |-> n]
AllocError == [kind |-> "AllocError", index |-> 0]
ExecutableValue == [kind |-> "Executable", index |-> 0]
\* todo!() panics: compile unwinds and returns nothing
Panic == [kind |-> "Panic", index |-> 0]

\* no code is running
NoCpu == [status |-> "none"]

NoRun == [done |-> FALSE, compiler |-> new, hash_seed |-> 0,
          second_pass_result |-> NoResult, result |-> NoResult]

Init ==
    /\ program \in Program
    /\ TARGET_SUPPORTED \in BOOLEAN
    /\ pc = "compile"
    /\ has_compiler = FALSE
    /\ compiler = new
    /\ hash_seed = 0
    /\ ir_label = 0
    /\ visited = {}
    /\ second_pass_result = NoResult
    /\ result = NoResult
    /\ first_run = NoRun
    /\ cpu = NoCpu

\* compile, lines 72-74: the target check and its early return
compile_unsupported ==
    /\ pc = "compile"
    /\ ~TARGET_SUPPORTED
    /\ result' = UnsupportedTarget
    /\ pc' = "done"
    /\ UNCHANGED <<program, TARGET_SUPPORTED, has_compiler, compiler,
                   hash_seed, ir_label, visited, second_pass_result, first_run,
                   cpu>>

\* compiler_new without the target check before it
compiler_new_unchecked ==
    /\ pc = "compile"
    /\ has_compiler' = TRUE
    /\ compiler' = new
    /\ \E s \in Seeds : hash_seed' = s
    /\ ir_label' = 0
    /\ pc' = "first_pass"
    /\ UNCHANGED <<program, TARGET_SUPPORTED, visited, second_pass_result,
                   result, first_run,
                   cpu>>

\* compile, line 76: let mut compiler = Compiler::new()
compiler_new ==
    /\ pc = "compile"
    /\ TARGET_SUPPORTED
    /\ has_compiler' = TRUE
    /\ compiler' = new
    /\ \E s \in Seeds : hash_seed' = s
    /\ ir_label' = 0
    /\ pc' = "first_pass"
    /\ UNCHANGED <<program, TARGET_SUPPORTED, visited, second_pass_result,
                   result, first_run,
                   cpu>>

\* first_pass, one iteration of the loop over program.code
first_pass_step ==
    /\ pc = "first_pass"
    /\ ir_label < Len(program)
    /\ compiler' = handle_instruction(def_main_label(compiler, ir_label),
                                      ir_label, program[ir_label + 1],
                                      Len(program))
    /\ ir_label' = ir_label + 1
    /\ UNCHANGED <<program, TARGET_SUPPORTED, pc, has_compiler, hash_seed,
                   visited, second_pass_result, result, first_run,
                   cpu>>

\* first_pass, after the loop: self.def_main_label(last_ir_label)
first_pass_end ==
    /\ pc = "first_pass"
    /\ ir_label = Len(program)
    /\ compiler' = def_main_label(compiler, Len(program))
    /\ visited' = {}
    /\ pc' = "second_pass"
    /\ UNCHANGED <<program, TARGET_SUPPORTED, has_compiler, hash_seed,
                   ir_label, second_pass_result, result, first_run,
                   cpu>>

\* the fixups second_pass has still to visit
pending == DOMAIN compiler.placeholders \ visited

\* iteration in an order that depends on the hasher, as a HashMap's does
next_placeholder_hashed ==
    IF hash_seed = 0 THEN Min(pending) ELSE Max(pending)

\* iteration of a BTreeMap: ascending key order
next_placeholder == Min(pending)

\* second_pass, one iteration whose label is defined: patch the placeholder
second_pass_patch ==
    /\ pc = "second_pass"
    /\ pending # {}
    /\ LET placeholder_label == next_placeholder
           key == compiler.placeholders[placeholder_label]
       IN  /\ key \in DOMAIN compiler.labels
           /\ compiler' =
                  [compiler EXCEPT !.buf =
                      copy_from_slice(compiler.buf, placeholder_label,
                                      to_le_bytes(compiler.labels[key], 4))]
           /\ visited' = visited \cup {placeholder_label}
    /\ UNCHANGED <<program, TARGET_SUPPORTED, pc, has_compiler, hash_seed,
                   ir_label, second_pass_result, result, first_run,
                   cpu>>

\* second_pass, one iteration whose label is missing: Err(BadLabelIndex)?,
\* which compile's own `?` hands on to its caller
second_pass_fail ==
    /\ pc = "second_pass"
    /\ pending # {}
    /\ LET key == compiler.placeholders[next_placeholder]
       IN  /\ key \notin DOMAIN compiler.labels
           /\ second_pass_result' = BadLabelIndex(key[1])
           /\ result' = BadLabelIndex(key[1])
    /\ pc' = "done"
    /\ UNCHANGED <<program, TARGET_SUPPORTED, has_compiler, compiler,
                   hash_seed, ir_label, visited, first_run,
                   cpu>>

\* second_pass, after the loop: Ok(())
second_pass_ok ==
    /\ pc = "second_pass"
    /\ pending = {}
    /\ second_pass_result' = Ok
    /\ pc' = "todo"
    /\ UNCHANGED <<program, TARGET_SUPPORTED, has_compiler, compiler,
                   hash_seed, ir_label, visited, result, first_run,
                   cpu>>

\* compile, line 81: todo!()
compile_todo ==
    /\ pc = "todo"
    /\ result' = Panic
    /\ pc' = "done"
    /\ UNCHANGED <<program, TARGET_SUPPORTED, has_compiler, compiler,
                   hash_seed, ir_label, visited, second_pass_result,
                   first_run, cpu>>

Next ==
    \/ compile_unsupported
    \/ compiler_new
    \/ first_pass_step
    \/ first_pass_end
    \/ second_pass_patch
    \/ second_pass_fail
    \/ second_pass_ok
    \/ compile_todo

Spec == Init /\ [][Next]_vars

\* A second, independent run on the same program: the first run's outcome
\* is kept aside and compile starts again from scratch.
run_again ==
    /\ pc = "done"
    /\ ~first_run.done
    /\ first_run' = [done |-> TRUE, compiler |-> compiler,
                     hash_seed |-> hash_seed,
                     second_pass_result |-> second_pass_result,
                     result |-> result]
    /\ pc' = "compile"
    /\ has_compiler' = FALSE
    /\ compiler' = new
    /\ ir_label' = 0
    /\ visited' = {}
    /\ second_pass_result' = NoResult
    /\ result' = NoResult
    /\ UNCHANGED <<program, TARGET_SUPPORTED, hash_seed, cpu>>

NextTwice == Next \/ run_again

SpecTwice == Init /\ [][NextTwice]_vars

TypeOK ==
    /\ program \in Program
    /\ TARGET_SUPPORTED \in BOOLEAN
    /\ pc \in {"compile", "first_pass", "second_pass", "todo", "done"}
    /\ has_compiler \in BOOLEAN
    /\ \A i \in 1..Len(compiler.buf) : compiler.buf[i] \in 0..255
    /\ hash_seed \in Seeds
    /\ ir_label \in 0..Len(program)
    /\ visited \subseteq DOMAIN compiler.placeholders

\* ------------------------------------------ running the emitted code
\* The caller of the entry point: the tape it passes and the values it has
\* left in the registers the callee must preserve.
TAPE_PTR == 65536
STRAY_PTR == 131072
CTX_PTR == 196608

\* results of the input helper: a data byte in the upper half, or the sign
\* bit set on failure
GetResults == {16640, 256, 32768}
\* results of the output helper
PutResults == {0, 128}

Tape == [base |-> TAPE_PTR, size |-> TAPE_CHUNK_SIZE, origin |-> 0,
         cells |-> EmptyMap]

\* the i32 the processor reads from the four bytes at offset o
imm32(b, o) ==
    b[o + 1] + 256 * b[o + 2] + 65536 * b[o + 3]
        + 16777216 * (IF b[o + 4] >= 128 THEN b[o + 4] - 256 ELSE b[o + 4])

\* the operand of movabs (the helpers' addresses fit its lower half)
imm64(b, o) == imm32(b, o)

\* the instruction whose entry label (i, 0) is at offset o
EntryIndex(o) ==
    {i \in 0..(Len(program) - 1) : compiler.labels[<<i, 0>>] = o}

\* the registers as they were when control reached an entry label
Snapshot(m, i) ==
    [i |-> i, r12 |-> m.r12, r13 |-> m.r13, r14 |-> m.r14,
     calls |-> Len(m.calls), base |-> m.tape.base,
     origin |-> m.tape.origin, size |-> m.tape.size]

\* control continues at offset o
Goto(m, o) ==
    [m EXCEPT !.ip = o,
              !.tpl = IF EntryIndex(o) # {}
                      THEN Snapshot(m, CHOOSE i \in EntryIndex(o) : TRUE)
                      ELSE @]

\* what the processor does is not determined by the emitted code: it
\* faults, or it goes on with whatever the memory it reached holds
Undefined(m, cause) ==
    {[m EXCEPT !.status = s, !.cause = cause] : s \in {"fault", "wild"}}

SetFlags(m, v) == [m EXCEPT !.zf = (v = 0), !.sf = (v < 0)]
SetFlags8(m, v) == [m EXCEPT !.zf = (v = 0), !.sf = (v >= 128)]

\* the address r12 + r14 lies in the tape
InTape(m, a) == m.r12 = m.tape.base /\ a >= 0 /\ a < m.tape.size

Cell(m, a) == IF a \in DOMAIN m.tape.cells THEN m.tape.cells[a] ELSE 0

Store(m, a, v) == [m EXCEPT !.tape.cells = insert(@, a, v)]

\* ror ax, n
ror16(ax, n) ==
    LET k == n % 16
    IN  (ax \div (2 ^ k)) + (ax % (2 ^ k)) * (2 ^ (16 - k))

\* a helper routine runs and returns to the instruction after the call
call_helper(m, o) ==
    CASE m.rax = GROW_NEXT_PTR /\ m.rdi = m.tape.base ->
             {Goto([m EXCEPT !.rax = ret,
                             !.tape.base = ret,
                             !.tape.size = @ + TAPE_CHUNK_SIZE,
                             !.calls = Append(@, [ptr |-> m.rax, ret |-> ret])],
                   o) : ret \in {TAPE_PTR, TAPE_PTR + TAPE_CHUNK_SIZE}}
      [] m.rax = GROW_PREV_PTR /\ m.rdi = m.tape.base ->
             {Goto([m EXCEPT !.rax = ret,
                             !.tape.base = ret,
                             !.tape.size = @ + TAPE_CHUNK_SIZE,
                             !.tape.origin = @ + TAPE_CHUNK_SIZE,
                             !.tape.cells =
                                 [a \in {k + TAPE_CHUNK_SIZE :
                                            k \in DOMAIN m.tape.cells} |->
                                     m.tape.cells[a - TAPE_CHUNK_SIZE]],
                             !.calls = Append(@, [ptr |-> m.rax, ret |-> ret])],
                   o) : ret \in {TAPE_PTR, TAPE_PTR + TAPE_CHUNK_SIZE}}
      [] m.rax = GET_PTR ->
             {Goto([m EXCEPT !.rax = ret,
                             !.calls = Append(@, [ptr |-> m.rax, ret |-> ret])],
                   o) : ret \in GetResults}
      [] m.rax = PUT_PTR ->
             {Goto([m EXCEPT !.rax = ret,
                             !.calls = Append(@, [ptr |-> m.rax, ret |-> ret])],
                   o) : ret \in PutResults}
      [] OTHER -> Undefined(m, "call")

\* One instruction: the processor decodes the bytes at m.ip and executes
\* them.  The result is the set of states it can be in afterwards.
exec(m) ==
    LET b == compiler.buf
        o == m.ip
        \* the bytes at ip are this encoding, followed by n operand bytes
        at(bytes, n) ==
            /\ o >= 0
            /\ o + Len(bytes) + n <= Len(b)
            /\ Slice(b, o, Len(bytes)) = bytes
        jump(taken, n) ==
            {Goto(m, IF taken THEN o + n + imm32(b, o + n - 4) ELSE o + n)}
        cell == Cell(m, m.r14)
    IN
    CASE o < 0 \/ o > Len(b) -> Undefined(m, "outside")
      [] o = Len(b) -> Undefined(m, "end")
      [] at(INCB_MEM_R12_R14, 0) ->
             IF InTape(m, m.r14)
             THEN {Goto(SetFlags8(Store(m, m.r14, (cell + 1) % 256),
                                  (cell + 1) % 256), o + 4)}
             ELSE Undefined(m, "memory")
      [] at(DECB_MEM_R12_R14, 0) ->
             IF InTape(m, m.r14)
             THEN {Goto(SetFlags8(Store(m, m.r14, (cell + 255) % 256),
                                  (cell + 255) % 256), o + 4)}
             ELSE Undefined(m, "memory")
      [] at(CMP_R14_WITH_R13, 0) -> {Goto(SetFlags(m, m.r14 - m.r13), o + 3)}
      [] at(TEST_R14_WITH_R14, 0) -> {Goto(SetFlags(m, m.r14), o + 3)}
      [] at(JNE_JNZ_REL32, 4) -> jump(~m.zf, 6)
      [] at(JE_JZ_REL32, 4) -> jump(m.zf, 6)
      [] at(JS_REL32, 4) -> jump(m.sf, 6)
      [] at(JMP_REL32, 4) -> jump(TRUE, 5)
      [] at(MOV_R12_TO_RDI, 0) -> {Goto([m EXCEPT !.rdi = m.r12], o + 3)}
      [] at(MOV_R13_TO_RSI, 0) -> {Goto([m EXCEPT !.rsi = m.r13], o + 3)}
      [] at(MOV_RBX_TO_RDI, 0) -> {Goto([m EXCEPT !.rdi = m.rbx], o + 3)}
      [] at(MOV_RAX_TO_R12, 0) -> {Goto([m EXCEPT !.r12 = m.rax], o + 3)}
      \* 66 89 c9: ModRM c9 names cx as source and as destination
      [] at(MOV_AX_TO_SI, 0) -> {Goto(m, o + 3)}
      [] at(MOVABS_TO_RAX, 8) ->
             {Goto([m EXCEPT !.rax = imm64(b, o + 2)], o + 10)}
      \* ff is an opcode group: only with ModRM d0 is it call rax
      [] at(CALL_ABS_RAX \o <<\Hd0>>, 0) -> call_helper(m, o + 2)
      [] at(ADD_IMM32_TO_R13, 4) ->
             LET v == m.r13 + imm32(b, o + 3)
             IN  {Goto(SetFlags([m EXCEPT !.r13 = v], v), o + 7)}
      [] at(ADD_IMM32_TO_R14, 4) ->
             LET v == m.r14 + imm32(b, o + 3)
             IN  {Goto(SetFlags([m EXCEPT !.r14 = v], v), o + 7)}
      [] at(INC_R14, 0) ->
             {Goto(SetFlags([m EXCEPT !.r14 = @ + 1], m.r14 + 1), o + 3)}
      [] at(DEC_R14, 0) ->
             {Goto(SetFlags([m EXCEPT !.r14 = @ - 1], m.r14 - 1), o + 3)}
      [] at(XOR_EAX_TO_EAX, 0) ->
             {Goto(SetFlags([m EXCEPT !.rax = 0], 0), o + 2)}
      [] at(MOV_MEM_R12_R14_TO_AL, 0) ->
             IF InTape(m, m.r14)
             THEN {Goto([m EXCEPT !.rax = @ - (@ % 256) + cell], o + 4)}
             ELSE Undefined(m, "memory")
      [] at(TEST_AL_WITH_AL, 0) -> {Goto(SetFlags8(m, m.rax % 256), o + 2)}
      [] at(TEST_AX_WITH_AX, 0) ->
             {Goto([m EXCEPT !.zf = (m.rax % 65536 = 0),
                             !.sf = (m.rax % 65536 >= 32768)], o + 3)}
      [] at(ROR_IMM8_TO_AX, 1) ->
             {Goto([m EXCEPT !.rax = @ - (@ % 65536)
                                       + ror16(@ % 65536, b[o + 4])],
                   o + 4)}
      \* 66 43 89 04 34: the operand-size prefix makes it a 16-bit store
      [] at(MOV_AX_TO_MEM_R12_R14, 0) ->
             IF InTape(m, m.r14) /\ InTape(m, m.r14 + 1)
             THEN {Goto(Store(Store(m, m.r14, m.rax % 256),
                              m.r14 + 1, (m.rax \div 256) % 256), o + 5)}
             ELSE Undefined(m, "memory")
      [] OTHER -> Undefined(m, "decode")

\* the entry point is called: the arguments are in rdi, rsi and rdx, and
\* rbx, r12, r13, r14 and the flags hold what the caller left in them
call_entry ==
    /\ pc = "todo"
    /\ cpu.status = "none"
    /\ \E r12 \in {TAPE_PTR, STRAY_PTR}, r13 \in {TAPE_CHUNK_SIZE, 0},
          r14 \in {0, TAPE_CHUNK_SIZE}, zf \in BOOLEAN, sf \in BOOLEAN :
           cpu' = Goto([status |-> "running", cause |-> "", ip |-> 0,
                        rax |-> 0, rbx |-> STRAY_PTR, rdi |-> CTX_PTR,
                        rsi |-> TAPE_PTR, r12 |-> r12, r13 |-> r13,
                        r14 |-> r14, zf |-> zf, sf |-> sf, tape |-> Tape,
                        calls |-> <<>>,
                        tpl |-> [i |-> Len(program), r12 |-> r12,
                                 r13 |-> r13, r14 |-> r14, calls |-> 0,
                                 base |-> TAPE_PTR, origin |-> 0,
                                 size |-> TAPE_CHUNK_SIZE],
                        conv |-> (r12 = TAPE_PTR /\ r13 = TAPE_CHUNK_SIZE
                                  /\ r14 = 0)], 0)
    /\ UNCHANGED <<program, TARGET_SUPPORTED, pc, has_compiler, compiler,
                   hash_seed, ir_label, visited, second_pass_result, result,
                   first_run>>

\* the processor executes the instruction at ip
exec_step ==
    /\ pc = "todo"
    /\ cpu.status = "running"
    /\ cpu' \in exec(cpu)
    /\ UNCHANGED <<program, TARGET_SUPPORTED, pc, has_compiler, compiler,
                   hash_seed, ir_label, visited, second_pass_result, result,
                   first_run>>

\* the processor runs until it stops, reaches offset stop or has executed n
\* instructions
RECURSIVE exec_until(_, _, _)
exec_until(M, stop, n) ==
    IF n = 0
    THEN M
    ELSE exec_until(UNION {IF m.status = "running" /\ m.ip # stop
                           THEN exec(m) ELSE {m} : m \in M}, stop, n - 1)

NextRun == Next \/ call_entry \/ exec_step

SpecRun == Init /\ [][NextRun]_vars

\* ------------------------------------------------------------ properties
last_ir_label == Len(program)

IsJump(i) == program[i].op \in {"Jz", "Jnz"}

\* every Jz/Jnz target is in 0..=len(program)
WellFormed ==
    \A i \in 1..Len(program) : IsJump(i) => program[i].target <= last_ir_label

\* first_pass has returned
AfterFirstPass == has_compiler /\ pc \in {"second_pass", "todo", "done"}

\* both passes are over
AfterSecondPass == has_compiler /\ pc \in {"todo", "done"}

\* the target index of the Jz, Jnz or Halt at position i (1-based)
TargetOf(i) == IF IsJump(i) THEN program[i].target ELSE last_ir_label

\* the fixups that follow a JS rel32, i.e. those of a Put or Get helper call
HelperFailFixups ==
    {p \in DOMAIN compiler.placeholders :
        p >= 2 /\ Slice(compiler.buf, p - 2, 2) = JS_REL32}

Prologue == write_enter(new).buf

RestoreAndReturn == POP_R14 \o POP_R13 \o POP_R12 \o POP_RBX \o RET

\* C1: for a program whose jump targets are all in 0..=len, second_pass
\* never returns BadLabelIndex.
C1_WellFormedNeverBadLabel ==
    WellFormed => second_pass_result.kind # "BadLabelIndex"

\* C2: when compile has ended, it has returned an Executable or one of the
\* three error kinds.
C2_CompileReturnsValue ==
    pc = "done" =>
        \/ result \in {ExecutableValue, UnsupportedTarget, AllocError}
        \/ result.kind = "BadLabelIndex"

\* C3: after first_pass the end-of-program label (len, 0) lies inside the
\* buffer and is followed by the code that sets the status to success, then
\* by the error-halt label (len, 1) and the restore-and-return sequence.
C3_EpilogueAtEndLabel ==
    AfterFirstPass =>
        /\ <<last_ir_label, 0>> \in DOMAIN compiler.labels
        /\ <<last_ir_label, 1>> \in DOMAIN compiler.labels
        /\ LET l0 == compiler.labels[<<last_ir_label, 0>>]
               l1 == compiler.labels[<<last_ir_label, 1>>]
           IN  /\ l0 < Len(compiler.buf)
               /\ l1 = l0 + Len(XOR_EAX_TO_EAX)
               /\ Len(compiler.buf) = l1 + Len(RestoreAndReturn)
               /\ Slice(compiler.buf, l0, Len(XOR_EAX_TO_EAX)) = XOR_EAX_TO_EAX
               /\ Slice(compiler.buf, l1, Len(RestoreAndReturn))
                      = RestoreAndReturn

\* C4: after first_pass the buffer begins with the prologue and the entry
\* label (0, 0) is the prologue's length.
C4_PrologueFirst ==
    AfterFirstPass =>
        /\ Len(compiler.buf) >= Len(Prologue)
        /\ SubSeq(compiler.buf, 1, Len(Prologue)) = Prologue
        /\ <<0, 0>> \in DOMAIN compiler.labels
        /\ compiler.labels[<<0, 0>>] = Len(Prologue)

\* C5: for a program whose jump targets are all in 0..=len, once compile has
\* ended second_pass has resolved every fixup and no placeholder is still
\* all zero.
C5_NoZeroPlaceholderLeft ==
    (AfterSecondPass /\ WellFormed) =>
        /\ second_pass_result = Ok
        /\ visited = DOMAIN compiler.placeholders
        /\ \A p \in DOMAIN compiler.placeholders :
               Slice(compiler.buf, p, 4) # to_le_bytes(0, 4)

\* C6: every Jz/Jnz/Halt target t in 0..=len has its entry label (t, 0)
\* after first_pass; the label of position t is set, by the step of
\* first_pass that begins emitting t (or that ends the pass, for t = len),
\* to the buffer length at that moment, and is never changed afterwards.
C6_EntryLabelAtEmissionStart ==
    /\ [](AfterFirstPass =>
            \A i \in 1..Len(program) :
                (program[i].op \in {"Jz", "Jnz", "Halt"}
                    /\ TargetOf(i) <= last_ir_label)
                => <<TargetOf(i), 0>> \in DOMAIN compiler.labels)
    /\ [][/\ pc = "first_pass" =>
                /\ <<ir_label, 0>> \in DOMAIN compiler'.labels
                /\ compiler'.labels[<<ir_label, 0>>] = Len(compiler.buf)
          /\ \A k \in DOMAIN compiler.labels :
                k[2] = 0 => /\ k \in DOMAIN compiler'.labels
                            /\ compiler'.labels[k] = compiler.labels[k]]_vars

\* a backward and a forward target, both with their labels, after the pass
C6_Witness ==
    /\ AfterFirstPass
    /\ \E i, j \in 1..Len(program) :
           /\ IsJump(i) /\ program[j].op = "Halt"
           /\ program[i].target = 1
           /\ compiler.labels[<<1, 0>>] > 0
           /\ compiler.labels[<<last_ir_label, 0>>] = Len(compiler.buf)

\* C7: when the program contains a Jz or Jnz whose target t exceeds the
\* program length, compile ends with BadLabelIndex(t).
C7_BadJumpReported ==
    (has_compiler /\ pc = "done") =>
        \A i \in 1..Len(program) :
            (IsJump(i) /\ program[i].target > last_ir_label)
            => result = BadLabelIndex(program[i].target)

\* C8: on an unsupported target compile returns UnsupportedTarget, and no
\* Compiler is ever created: no byte, no label, no fixup.
C8_UnsupportedBeforeAnyWork ==
    ~TARGET_SUPPORTED =>
        /\ ~has_compiler
        /\ compiler = new
        /\ pc \in {"compile", "done"}
        /\ pc = "done" => result = UnsupportedTarget

C8_Witness ==
    /\ ~TARGET_SUPPORTED
    /\ pc = "done"
    /\ result = UnsupportedTarget
    /\ Len(program) = MaxLen

\* C9: two independent runs of the two passes on the same program end with
\* the same buffer, the same label table and the same outcome.
C9_Deterministic ==
    (first_run.done /\ pc = "done") =>
        /\ compiler.buf = first_run.compiler.buf
        /\ compiler.labels = first_run.compiler.labels
        /\ second_pass_result = first_run.second_pass_result

\* two finished runs with different hasher states, and fixups whose
\* missing labels have different indices
C9_Witness ==
    /\ first_run.done /\ pc = "done" /\ has_compiler
    /\ hash_seed # first_run.hash_seed
    /\ second_pass_result.kind = "BadLabelIndex"
    /\ Cardinality({compiler.placeholders[p][1] :
                       p \in {q \in DOMAIN compiler.placeholders :
                                 compiler.placeholders[q]
                                     \notin DOMAIN compiler.labels}})
           >= 2

\* C10: once compile has ended on a supported target, the jump taken when a
\* Put or Get helper fails leads to the error-halt label (len, 1): that
\* label is defined, the jump's operand has been patched with it, and the
\* code there restores the registers and returns without touching the status.
C10_HelperFailureReachesErrorHalt ==
    (has_compiler /\ pc = "done") =>
        \A p \in HelperFailFixups :
            /\ compiler.placeholders[p] = <<last_ir_label, 1>>
            /\ <<last_ir_label, 1>> \in DOMAIN compiler.labels
            /\ p \in visited
            /\ LET l1 == compiler.labels[<<last_ir_label, 1>>]
               IN  /\ l1 + Len(RestoreAndReturn) <= Len(compiler.buf)
                   /\ Slice(compiler.buf, l1, Len(RestoreAndReturn))
                          = RestoreAndReturn

\* the fixup at offset p directly follows the opcode of a rel32 jump
FollowsJumpOpcode(p) ==
    \/ p >= 1 /\ Slice(compiler.buf, p - 1, 1) = JMP_REL32
    \/ p >= 2 /\ Slice(compiler.buf, p - 2, 2)
                     \in {JE_JZ_REL32, JNE_JNZ_REL32, JS_REL32}

\* C13: after second_pass every patched fixup follows a rel32 jump opcode
\* and holds the displacement from the byte after its operand to its label,
\* L - (p + 4) as a 32-bit two's complement value.
C13_PatchedDisplacementIsRelative ==
    AfterSecondPass =>
        \A p \in visited :
            /\ FollowsJumpOpcode(p)
            /\ Slice(compiler.buf, p, 4)
                   = to_le_bytes(
                         compiler.labels[compiler.placeholders[p]] - (p + 4),
                         4)

\* C16: no step of second_pass changes the buffer's length, the label table
\* or the fixup table, nor any byte outside the operand ranges [p, p + 4)
\* of the recorded fixups.
C16_SecondPassFrame ==
    [][pc = "second_pass" =>
          /\ Len(compiler'.buf) = Len(compiler.buf)
          /\ compiler'.labels = compiler.labels
          /\ compiler'.placeholders = compiler.placeholders
          /\ \A j \in 1..Len(compiler.buf) :
                 compiler'.buf[j] # compiler.buf[j]
                 => \E p \in DOMAIN compiler.placeholders :
                        j - 1 \in p..(p + 3)]_vars

\* second_pass has succeeded and has changed a byte that is followed by code
C16_Witness ==
    /\ has_compiler /\ second_pass_result = Ok
    /\ \E p \in visited :
           /\ Slice(compiler.buf, p, 4) # to_le_bytes(0, 4)
           /\ p + 4 < Len(compiler.buf)

\* the number of def_label calls in the step of first_pass about to happen
DefLabelCalls ==
    IF ir_label < Len(program)
        /\ program[ir_label + 1].op \in {"Next", "Prev", "Get"}
    THEN 2 ELSE 1

\* C17: during first_pass every def_label call defines a key that was not
\* there (the table grows by one per call, no entry changes); a key (i, 1)
\* belongs to a Next, Prev or Get at position i < len, so it is neither an
\* entry label nor the error-halt key (len, 1); and every internal key
\* (i, 1), i < len, that a fixup names is defined by the step that made it.
C17_LabelsDefinedOnce ==
    /\ [](has_compiler =>
            /\ \A k \in DOMAIN compiler.labels :
                   /\ k[2] \in {0, 1}
                   /\ k[2] = 1 =>
                          /\ k[1] < last_ir_label
                          /\ program[k[1] + 1].op \in {"Next", "Prev", "Get"}
            /\ \A p \in DOMAIN compiler.placeholders :
                   LET k == compiler.placeholders[p]
                   IN  (k[2] = 1 /\ k[1] < last_ir_label)
                       => /\ k \in DOMAIN compiler.labels
                          /\ program[k[1] + 1].op \in {"Next", "Prev", "Get"})
    /\ [][pc = "first_pass" =>
             /\ Cardinality(DOMAIN compiler'.labels)
                    = Cardinality(DOMAIN compiler.labels) + DefLabelCalls
             /\ \A k \in DOMAIN compiler.labels :
                    /\ k \in DOMAIN compiler'.labels
                    /\ compiler'.labels[k] = compiler.labels[k]]_vars

\* two templates with an internal label, each label defined and referenced
C17_Witness ==
    /\ AfterFirstPass
    /\ Len(program) = 2
    /\ \A i \in 0..1 :
           /\ <<i, 1>> \in DOMAIN compiler.labels
           /\ \E p \in DOMAIN compiler.placeholders :
                  compiler.placeholders[p] = <<i, 1>>

\* C19: after first_pass every fixup offset p has its four bytes inside the
\* buffer, still zero until second_pass visits it, disjoint from every other
\* fixup's bytes and directly after a jump opcode; and the entry labels
\* (i, 0) increase strictly with i.
C19_FixupTableWellFormed ==
    AfterFirstPass =>
        /\ \A p \in DOMAIN compiler.placeholders :
               /\ p + 4 <= Len(compiler.buf)
               /\ p \notin visited =>
                      Slice(compiler.buf, p, 4) = to_le_bytes(0, 4)
               /\ FollowsJumpOpcode(p)
               /\ \A q \in DOMAIN compiler.placeholders :
                      q # p => (q + 4 <= p \/ p + 4 <= q)
        /\ \A i \in 0..(last_ir_label - 1) :
               compiler.labels[<<i, 0>>] < compiler.labels[<<i + 1, 0>>]

\* first_pass has just returned with several fixups, one at the buffer's end
C19_Witness ==
    /\ has_compiler /\ pc = "second_pass" /\ visited = {}
    /\ Cardinality(DOMAIN compiler.placeholders) >= 3
    /\ \E p \in DOMAIN compiler.placeholders : p + 4 = Len(compiler.buf)

\* the offsets [TemplateStart(i), TemplateEnd(i)) hold instruction i's code
TemplateStart(i) == compiler.labels[<<i, 0>>]
TemplateEnd(i) == compiler.labels[<<i + 1, 0>>]

\* the processor is executing inside the template of an op instruction,
\* which it entered at its entry label
InTemplate(m, op) ==
    /\ m.status = "running"
    /\ m.tpl.i < Len(program)
    /\ program[m.tpl.i + 1].op = op
    /\ m.ip >= TemplateStart(m.tpl.i)
    /\ m.ip < TemplateEnd(m.tpl.i)

\* ... and in state n it no longer is
LeavesTemplate(m, n) ==
    \/ n.status # "running"
    \/ n.ip < TemplateStart(m.tpl.i)
    \/ n.ip >= TemplateEnd(m.tpl.i)

\* on entry to the template r12 and r13 held the tape's base and capacity
EnteredOnTape(m) == m.tpl.r12 = m.tpl.base /\ m.tpl.r13 = m.tpl.size

\* the helper at ptr has been called exactly once since the template's entry
CalledOnce(m, n, ptr) ==
    /\ Len(n.calls) = m.tpl.calls + 1
    /\ n.calls[Len(n.calls)].ptr = ptr

\* C11: when control leaves a Prev template that was entered with
\* cursor = 0, it leaves at the template's end, grow_prev has been called
\* once, the cursor is at the last cell of the new chunk, capacity is one
\* chunk larger, the base is the pointer grow_prev returned, and the cell
\* addressed before is at index cursor + chunk_size.
C11_PrevGrowsBackward ==
    [][(/\ cpu.status = "running"
        /\ cpu' # cpu
        /\ InTemplate(cpu, "Prev")
        /\ EnteredOnTape(cpu)
        /\ cpu.tpl.r14 = 0
        /\ LeavesTemplate(cpu, cpu'))
       => /\ cpu'.status = "running"
          /\ cpu'.ip = TemplateEnd(cpu.tpl.i)
          /\ CalledOnce(cpu, cpu', GROW_PREV_PTR)
          /\ cpu'.r12 = cpu'.calls[Len(cpu'.calls)].ret
          /\ cpu'.r13 = cpu.tpl.r13 + TAPE_CHUNK_SIZE
          /\ cpu'.r14 = TAPE_CHUNK_SIZE - 1
          /\ cpu.tpl.r14 + (cpu'.tape.origin - cpu.tpl.origin)
                 = cpu'.r14 + TAPE_CHUNK_SIZE]_vars

\* C12: in a run that started with cursor 0 and a capacity of one chunk,
\* control leaves every Next template at its end with the cursor advanced
\* by exactly one; if the cursor had reached the capacity, grow_next has
\* been called once, capacity is one chunk larger and the base is the
\* pointer it returned; otherwise nothing else has changed.
C12_NextGrowsForward ==
    [][(/\ cpu.status = "running"
        /\ cpu' # cpu
        /\ cpu.conv
        /\ InTemplate(cpu, "Next")
        /\ EnteredOnTape(cpu)
        /\ LeavesTemplate(cpu, cpu'))
       => /\ cpu'.status = "running"
          /\ cpu'.ip = TemplateEnd(cpu.tpl.i)
          /\ cpu'.r14 = cpu.tpl.r14 + 1
          /\ IF cpu.tpl.r14 = cpu.tpl.r13
             THEN /\ CalledOnce(cpu, cpu', GROW_NEXT_PTR)
                  /\ cpu'.r12 = cpu'.calls[Len(cpu'.calls)].ret
                  /\ cpu'.r13 = cpu.tpl.r13 + TAPE_CHUNK_SIZE
             ELSE /\ Len(cpu'.calls) = cpu.tpl.calls
                  /\ cpu'.r12 = cpu.tpl.r12
                  /\ cpu'.r13 = cpu.tpl.r13]_vars

\* C14: a Jz template entered with the cursor on a tape cell passes control
\* to its target's entry label exactly when that cell is zero, and a Jnz
\* template exactly when it is nonzero; otherwise control falls through to
\* the next instruction.
C14_JumpTestsCurrentCell ==
    [][(/\ cpu.status = "running"
        /\ cpu' # cpu
        /\ (InTemplate(cpu, "Jz") \/ InTemplate(cpu, "Jnz"))
        /\ cpu.ip = TemplateStart(cpu.tpl.i)
        /\ InTape(cpu, cpu.r14))
       => LET instr == program[cpu.tpl.i + 1]
              zero == Cell(cpu, cpu.r14) = 0
              taken == IF instr.op = "Jz" THEN zero ELSE ~zero
          IN  /\ cpu'.status = "running"
              /\ cpu'.ip = IF taken
                           THEN compiler.labels[<<instr.target, 0>>]
                           ELSE TemplateEnd(cpu.tpl.i)]_vars

\* the input helper has just returned ret into the Get template at i, with
\* the cursor on cell 0 and a 7 in cell 1
ReturnedFromGet(i, ret) ==
    [status |-> "running", cause |-> "",
     ip |-> compiler.labels[<<i, 1>>] + Len(MOV_RBX_TO_RDI)
                + Len(MOVABS_TO_RAX) + 8 + Len(CALL_ABS_RAX),
     rax |-> ret, rbx |-> CTX_PTR, rdi |-> CTX_PTR, rsi |-> TAPE_CHUNK_SIZE,
     r12 |-> TAPE_PTR, r13 |-> TAPE_CHUNK_SIZE, r14 |-> 0,
     zf |-> FALSE, sf |-> FALSE,
     tape |-> [Tape EXCEPT !.cells = insert(EmptyMap, 1, 7)],
     calls |-> <<[ptr |-> GET_PTR, ret |-> ret]>>,
     tpl |-> [i |-> i, r12 |-> TAPE_PTR, r13 |-> TAPE_CHUNK_SIZE, r14 |-> 0,
              calls |-> 0, base |-> TAPE_PTR, origin |-> 0,
              size |-> TAPE_CHUNK_SIZE],
     conv |-> TRUE]

\* C15: from the point where the input helper returns a success result,
\* the Get template runs to its end, has stored the result's data byte in
\* the cell at the cursor and has left the cell at cursor + 1 as it was.
C15_GetStoresOneByte ==
    AfterFirstPass =>
        \A i \in 0..(last_ir_label - 1) :
            program[i + 1].op = "Get" =>
                \A ret \in {r \in GetResults : r < 32768} :
                    \A m \in exec_until({ReturnedFromGet(i, ret)},
                                        TemplateEnd(i), 4) :
                        /\ m.status = "running"
                        /\ m.ip = TemplateEnd(i)
                        /\ Cell(m, 0) = ret \div 256
                        /\ Cell(m, 1) = 7

\* the processor is about to execute an instruction that accesses the byte
\* at r12 + r14
AtTapeAccess(m) ==
    /\ m.status = "running"
    /\ \E bytes \in {INCB_MEM_R12_R14, DECB_MEM_R12_R14,
                     MOV_MEM_R12_R14_TO_AL, MOV_AX_TO_MEM_R12_R14} :
           /\ m.ip + Len(bytes) <= Len(compiler.buf)
           /\ Slice(compiler.buf, m.ip, Len(bytes)) = bytes

====
